---- MODULE Spec2Model ----
(***************************************************************************)
(* A model of nix-flake-show (src/src/lib.rs): the NixFlakeShowBuilder     *)
(* that renders a configuration into the arguments of `nix flake show`,    *)
(* into_structured that runs the command and parses its standard output,   *)
(* and FlakeInfo with its per-system views.                                *)
(*                                                                         *)
(* Option<T> is a sequence of length at most one: <<>> is None, <<x>> is   *)
(* Some(x).  A HashMap is a function whose DOMAIN is its key set.          *)
(***************************************************************************)
EXTENDS Integers, Sequences, FiniteSets, TLC

\* ------------------------------------------------------------------ bounds
MaxVerbosity == 2
MaxSetterCalls == 2
MaxEntries == 2
MaxQueries == 2

\* The values the inputs are drawn from.
Builders == {1, 2}
Urls == {"./flake"}
LogFormats == {"Raw", "InternalJson", "Bar", "BarWithLogs"}
Platforms == {"x86-platform", "p"}
Invoks == {"hello", "i"}
Cats == {"devShells", "packages"}

None == <<>>
Some(x) == <<x>>

\* ------------------------------------------------- NixFlakeShowBuilder
\* #[derive(Default)]: every flag off, verbosity 0, no log format, no url.
flake_show ==
    [all_systems |-> FALSE, json |-> FALSE, legacy |-> FALSE, impure |-> FALSE,
     recreate_lock_file |-> FALSE, debug |-> FALSE, verbosity_level |-> 0,
     log_format |-> None, url |-> None]

OptionNames == DOMAIN flake_show

all_systems(self, v) == [self EXCEPT !.all_systems = v]

json(self, v) == [self EXCEPT !.json = v]

legacy(self, v) == [self EXCEPT !.legacy = v]

impure(self, v) == [self EXCEPT !.impure = v]

recreate_lock_file(self, v) == [self EXCEPT !.recreate_lock_file = v]

debug(self, v) == [self EXCEPT !.debug = v]

\* A setter that accumulates instead of overwriting.
verbosity_level_accumulating(self, v) ==
    [self EXCEPT !.verbosity_level = self.verbosity_level + v]

verbosity_level(self, v) == [self EXCEPT !.verbosity_level = v]

log_format(self, v) == [self EXCEPT !.log_format = v]

url(self, v) == [self EXCEPT !.url = Some(v)]

\* "v".repeat(n)
RECURSIVE repeat(_, _)
repeat(s, n) == IF n = 0 THEN "" ELSE s \o repeat(s, n - 1)

\* The match of build() on NixFlakeLogFormat.
log_format_str(f) ==
    CASE f = "Raw" -> "raw"
      [] f = "InternalJson" -> "internal-json"
      [] f = "Bar" -> "bar"
      [] f = "BarWithLogs" -> "bar-with-logs"

\* build() that emits the verbosity argument also at level 0.
build_verbosity_unguarded(self) ==
    LET c0 == <<"flake", "show">>
        c1 == IF self.url # None THEN Append(c0, self.url[1]) ELSE c0
        c2 == IF self.all_systems THEN Append(c1, "--all-systems") ELSE c1
        c3 == IF self.json THEN Append(c2, "--json") ELSE c2
        c4 == IF self.legacy THEN Append(c3, "--legacy") ELSE c3
        c5 == IF self.impure THEN Append(c4, "--impure") ELSE c4
        c6 == IF self.recreate_lock_file THEN Append(c5, "--recreate-lock-file") ELSE c5
        c7 == IF self.debug THEN Append(c6, "--debug") ELSE c6
        c8 == Append(c7, "-" \o repeat("v", self.verbosity_level))
        c9 == IF self.log_format # None
              THEN Append(Append(c8, "--log-format"), log_format_str(self.log_format[1]))
              ELSE c8
    IN  [args |-> c9, stdout |-> "piped", stderr |-> "inherit"]

\* build(): the std::process::Command, as its argument list after the program
\* name and its stdout/stderr settings.
build(self) ==
    LET c0 == <<"flake", "show">>
        c1 == IF self.url # None THEN Append(c0, self.url[1]) ELSE c0
        c2 == IF self.all_systems THEN Append(c1, "--all-systems") ELSE c1
        c3 == IF self.json THEN Append(c2, "--json") ELSE c2
        c4 == IF self.legacy THEN Append(c3, "--legacy") ELSE c3
        c5 == IF self.impure THEN Append(c4, "--impure") ELSE c4
        c6 == IF self.recreate_lock_file THEN Append(c5, "--recreate-lock-file") ELSE c5
        c7 == IF self.debug THEN Append(c6, "--debug") ELSE c6
        c8 == IF self.verbosity_level > 0
              THEN Append(c7, "-" \o repeat("v", self.verbosity_level))
              ELSE c7
        c9 == IF self.log_format # None
              THEN Append(Append(c8, "--log-format"), log_format_str(self.log_format[1]))
              ELSE c8
    IN  [args |-> c9, stdout |-> "piped", stderr |-> "inherit"]

\* ------------------------------------------------------ the JSON on stdout
\* The captured standard output.  complete = FALSE is a document cut short.
\* A category is absent or an object, an object is the sequence of its members
\* in document order (a name may occur twice), a detail is the object's
\* "name", "type" and "description" members, each there or not.
JsonDetails ==
    { [name |-> Some("n"), type |-> Some("k"), description |-> Some("d")],
      [name |-> Some("hello"), type |-> Some("derivation"), description |-> None],
      [name |-> None, type |-> Some("derivation"), description |-> Some("d")],
      [name |-> Some("hello"), type |-> None, description |-> None] }

EmptyDocument ==
    [complete |-> TRUE,
     devShells |-> [present |-> FALSE, members |-> <<>>],
     packages |-> [present |-> FALSE, members |-> <<>>]]

\* Result<T, E>: Ok(v) or Err.
Ok(v) == [ok |-> TRUE, val |-> <<v>>]
Err == [ok |-> FALSE, val |-> <<>>]

EmptyMap == [k \in {} |-> k]

\* HashMap::insert: a later value for the same key replaces the earlier one.
insert(m, k, v) == (k :> v) @@ m

\* Deserialize of FlakeAnatomyDetail that lets a missing name default to "".
FlakeAnatomyDetail_default_name(j) ==
    IF j.type = None
    THEN Err
    ELSE Ok([name |-> IF j.name = None THEN "" ELSE j.name[1],
             type |-> j.type[1], description |-> j.description])

\* #[derive(Deserialize)] FlakeAnatomyDetail: name and type are required,
\* description is an Option.
FlakeAnatomyDetail(j) ==
    IF j.name = None \/ j.type = None
    THEN Err
    ELSE Ok([name |-> j.name[1], type |-> j.type[1], description |-> j.description])

\* #[derive(Deserialize)] HighLevelFieldAnatomy: #[serde(flatten)] collects every
\* member of the object into names, each value deserialized in document order.
RECURSIVE HighLevelFieldAnatomy(_)
HighLevelFieldAnatomy(members) ==
    IF members = <<>>
    THEN Ok([names |-> EmptyMap])
    ELSE LET n == Len(members)
             before == HighLevelFieldAnatomy(SubSeq(members, 1, n - 1))
             detail == FlakeAnatomyDetail(members[n].value)
         IN  IF ~before.ok \/ ~detail.ok
             THEN Err
             ELSE Ok([names |-> insert(before.val[1].names, members[n].key, detail.val[1])])

\* Deserialize of HashMap<String, HighLevelFieldAnatomy>.
RECURSIVE AnatomyMap(_)
AnatomyMap(members) ==
    IF members = <<>>
    THEN Ok(EmptyMap)
    ELSE LET n == Len(members)
             before == AnatomyMap(SubSeq(members, 1, n - 1))
             anat == HighLevelFieldAnatomy(members[n].value)
         IN  IF ~before.ok \/ ~anat.ok
             THEN Err
             ELSE Ok(insert(before.val[1], members[n].key, anat.val[1]))

\* A category field without #[serde(default)]: a missing key is an error.
CategoryField_required(cat) ==
    IF cat.present THEN AnatomyMap(cat.members) ELSE Err

\* A field of FlakeShowOutput: #[serde(default)] gives the empty map when the
\* key is absent.
CategoryField(cat) ==
    IF cat.present THEN AnatomyMap(cat.members) ELSE Ok(EmptyMap)

\* serde_json::from_slice::<FlakeShowOutput>
FlakeShowOutput(v) ==
    IF ~v.complete
    THEN Err
    ELSE LET d == CategoryField(v.devShells)
             p == CategoryField(v.packages)
         IN  IF ~d.ok \/ ~p.ok
             THEN Err
             ELSE Ok([dev_shells |-> d.val[1], packages |-> p.val[1]])

\* ------------------------------------------------------------- FlakeInfo
\* The orders a HashMap over Invoks can be iterated in.
IterOrders ==
    { s \in [1..Cardinality(Invoks) -> Invoks] :
        \A i, j \in 1..Cardinality(Invoks) : i # j => s[i] # s[j] }

IsInKeys(names, k) == k \in DOMAIN names

\* The keys of names in the iteration order iter.
Iterate(names, iter) == SelectSeq(iter, LAMBDA k : IsInKeys(names, k))

\* A Derivation whose invocation is taken from the detail's name.
Derivation_invocation_from_name(details, invok) ==
    [name |-> details.name, kind |-> details.type,
     description |-> details.description, invocation |-> details.name]

\* The Derivation pushed by the loops of From<FlakeShowOutput>.
Derivation(details, invok) ==
    [name |-> details.name, kind |-> details.type,
     description |-> details.description, invocation |-> invok]

\* The inner loop that skips a detail without a description.
RECURSIVE derivs_skip_undescribed(_, _)
derivs_skip_undescribed(names, keys) ==
    IF keys = <<>>
    THEN <<>>
    ELSE LET n == Len(keys)
             front == derivs_skip_undescribed(names, SubSeq(keys, 1, n - 1))
         IN  IF names[keys[n]].description = None
             THEN front
             ELSE Append(front, Derivation(names[keys[n]], keys[n]))

\* The inner loop `for (invok, details) in anat.names { derivs.push(..) }`,
\* keys being the keys of names in iteration order.
RECURSIVE derivs(_, _)
derivs(names, keys) ==
    IF keys = <<>>
    THEN <<>>
    ELSE LET n == Len(keys)
         IN  Append(derivs(names, SubSeq(keys, 1, n - 1)),
                    Derivation(names[keys[n]], keys[n]))

\* One outer loop: every arch gets its entry (entry(arch).or_default()) and the
\* Derivations of its anatomy.  iter[arch] is the iteration order of anat.names.
flatten(field, iter) ==
    [arch \in DOMAIN field |->
        derivs(field[arch].names, Iterate(field[arch].names, iter[arch]))]

\* impl From<FlakeShowOutput> for FlakeInfo
From(value, iter) ==
    [dev_shells |-> flatten(value.dev_shells, iter.devShells),
     packages |-> flatten(value.packages, iter.packages)]

\* from_stdout with unwrap_or_default in the place of unwrap.
from_stdout_or_default(v, iter) ==
    LET r == FlakeShowOutput(v)
    IN  IF r.ok
        THEN [panicked |-> FALSE, info |-> Some(From(r.val[1], iter))]
        ELSE [panicked |-> FALSE,
              info |-> Some([dev_shells |-> EmptyMap, packages |-> EmptyMap])]

\* FlakeInfo::from_stdout: unwrap() panics on a deserialization error.
from_stdout(v, iter) ==
    LET r == FlakeShowOutput(v)
    IN  IF r.ok
        THEN [panicked |-> FALSE, info |-> Some(From(r.val[1], iter))]
        ELSE [panicked |-> TRUE, info |-> None]

\* for_system that looks packages up among the dev shells.
for_system_one_map(self, sys) ==
    [dev_shells |-> IF sys \in DOMAIN self.dev_shells THEN self.dev_shells[sys] ELSE <<>>,
     packages |-> IF sys \in DOMAIN self.dev_shells THEN self.dev_shells[sys] ELSE <<>>]

\* for_system that drops the first entry of each sequence.
for_system_skip_first(self, sys) ==
    [dev_shells |-> IF sys \in DOMAIN self.dev_shells /\ self.dev_shells[sys] # <<>>
                    THEN Tail(self.dev_shells[sys]) ELSE <<>>,
     packages |-> IF sys \in DOMAIN self.packages /\ self.packages[sys] # <<>>
                  THEN Tail(self.packages[sys]) ELSE <<>>]

\* FlakeInfo::for_system: get(sys).cloned().unwrap_or_default() per category.
for_system(self, sys) ==
    [dev_shells |-> IF sys \in DOMAIN self.dev_shells THEN self.dev_shells[sys] ELSE <<>>,
     packages |-> IF sys \in DOMAIN self.packages THEN self.packages[sys] ELSE <<>>]

\* current_nix_system(): one `nix eval` per call; unwrap() panics when the
\* process cannot be launched, otherwise its stdout is the answer.  nix.log is
\* the evaluations the nix installation has been asked for.
current_nix_system(nix, launched) ==
    [panicked |-> ~launched,
     ret |-> nix.system,
     nix |-> [nix EXCEPT !.log = Append(nix.log, nix.system)]]

\* for_current_system that asks only when it has not asked before.
for_current_system_cached(self, nix, launched) ==
    IF nix.log # <<>>
    THEN [panicked |-> FALSE, ret |-> for_system(self, nix.log[1]), nix |-> nix]
    ELSE LET sys == current_nix_system(nix, launched)
         IN  [panicked |-> sys.panicked,
              ret |-> for_system(self, sys.ret),
              nix |-> sys.nix]

\* FlakeInfo::for_current_system
for_current_system(self, nix, launched) ==
    LET sys == current_nix_system(nix, launched)
    IN  [panicked |-> sys.panicked,
         ret |-> for_system(self, sys.ret),
         nix |-> sys.nix]

\* into_structured that parses the output whatever the exit status.
into_structured_ignoring_status(output, iter) ==
    IF output.io_error
    THEN [tag |-> "Err", info |-> None, parses |-> 0]
    ELSE LET parsed == from_stdout(output.stdout, iter)
         IN  [tag |-> IF parsed.panicked THEN "Panic" ELSE "OkSome",
              info |-> parsed.info, parses |-> 1]

\* NixFlakeShowBuilder::into_structured after self.build(), given what output()
\* gave: an io::Error, or the exit status and the captured stdout.  parses
\* counts the calls of from_stdout.
into_structured(output, iter) ==
    IF output.io_error
    THEN [tag |-> "Err", info |-> None, parses |-> 0]
    ELSE IF output.success
         THEN LET parsed == from_stdout(output.stdout, iter)
              IN  [tag |-> IF parsed.panicked THEN "Panic" ELSE "OkSome",
                   info |-> parsed.info, parses |-> 1]
         ELSE [tag |-> "OkNone", info |-> None, parses |-> 0]

\* ------------------------------------------------------------------ state
VARIABLES
    cfg,        \* cfg[b]: the NixFlakeShowBuilder b
    last,       \* last[b]: the value each option of b was last set to (its default if never)
    nset,       \* nset[b]: the setter calls made on b
    built,      \* built[b]: Some(the Command build() returned), b being consumed by it
    pc,         \* where the caller of into_structured is
    stdout,     \* what the nix process has written so far
    output,     \* what self.build().output() gave
    result,     \* what into_structured returned
    parses,     \* the calls of from_stdout so far
    nix,        \* the nix installation: the system it reports, the evaluations asked of it
    asked,      \* the system nix reported at each for_current_system call
    view,       \* the IndividualFlakeInfos the last view call returned
    lastQuery   \* the last view call and the system it looked up

vars == <<cfg, last, nset, built, pc, stdout, output, result, parses, nix, asked,
          view, lastQuery>>

builderVars == <<cfg, last, nset, built>>
runVars == <<pc, stdout, output, result, parses>>
viewVars == <<nix, asked, view, lastQuery>>

Init ==
    /\ cfg = [b \in Builders |-> flake_show]
    /\ last = [b \in Builders |-> flake_show]
    /\ nset = [b \in Builders |-> 0]
    /\ built = [b \in Builders |-> None]
    /\ pc = "config"
    /\ stdout = EmptyDocument
    /\ output = [io_error |-> FALSE, success |-> FALSE, stdout |-> EmptyDocument]
    /\ result = [tag |-> "Pending", info |-> None]
    /\ parses = 0
    /\ nix = [system |-> "x86-platform", log |-> <<>>]
    /\ asked = <<>>
    /\ view = [dev_shells |-> <<>>, packages |-> <<>>]
    /\ lastQuery = [kind |-> "none", sys |-> None]

\* ---------------------------------------------------------------- setters
\* A setter call on builder b, which build() has not consumed; cap bounds the
\* calls made on one builder.
CanSet(b, cap) == built[b] = None /\ nset[b] < cap

Set(b, c, l) ==
    /\ cfg' = [cfg EXCEPT ![b] = c]
    /\ last' = [last EXCEPT ![b] = l]
    /\ nset' = [nset EXCEPT ![b] = nset[b] + 1]
    /\ UNCHANGED <<built, runVars, viewVars>>

SetAllSystems(b, cap) ==
    \E v \in BOOLEAN :
        CanSet(b, cap) /\ Set(b, all_systems(cfg[b], v), [last[b] EXCEPT !.all_systems = v])

SetJson(b, cap) ==
    \E v \in BOOLEAN :
        CanSet(b, cap) /\ Set(b, json(cfg[b], v), [last[b] EXCEPT !.json = v])

SetLegacy(b, cap) ==
    \E v \in BOOLEAN :
        CanSet(b, cap) /\ Set(b, legacy(cfg[b], v), [last[b] EXCEPT !.legacy = v])

SetImpure(b, cap) ==
    \E v \in BOOLEAN :
        CanSet(b, cap) /\ Set(b, impure(cfg[b], v), [last[b] EXCEPT !.impure = v])

SetRecreateLockFile(b, cap) ==
    \E v \in BOOLEAN :
        CanSet(b, cap)
        /\ Set(b, recreate_lock_file(cfg[b], v), [last[b] EXCEPT !.recreate_lock_file = v])

SetDebug(b, cap) ==
    \E v \in BOOLEAN :
        CanSet(b, cap) /\ Set(b, debug(cfg[b], v), [last[b] EXCEPT !.debug = v])

SetVerbosityLevel(b, cap) ==
    \E v \in 0..MaxVerbosity :
        CanSet(b, cap)
        /\ Set(b, verbosity_level(cfg[b], v), [last[b] EXCEPT !.verbosity_level = v])

SetLogFormat(b, cap) ==
    \E v \in {None} \cup {Some(f) : f \in LogFormats} :
        CanSet(b, cap) /\ Set(b, log_format(cfg[b], v), [last[b] EXCEPT !.log_format = v])

SetUrl(b, cap) ==
    \E v \in Urls :
        CanSet(b, cap) /\ Set(b, url(cfg[b], v), [last[b] EXCEPT !.url = Some(v)])

\* build(self): consumes the builder and returns the Command.
Build(b) ==
    /\ built[b] = None
    /\ built' = [built EXCEPT ![b] = Some(build(cfg[b]))]
    /\ UNCHANGED <<cfg, last, nset, runVars, viewVars>>

\* ------------------------------------------------------- into_structured
\* into_structured(self), up to the blocking output(): self.build() and the
\* attempt to start the process.
IntoStructuredCall ==
    /\ pc = "config"
    /\ built[1] = None
    /\ built' = [built EXCEPT ![1] = Some(build(cfg[1]))]
    /\ pc' = "spawning"
    /\ UNCHANGED <<cfg, last, nset, stdout, output, result, parses, viewVars>>

\* output() fails: the nix binary is missing or may not be executed.
LaunchFails ==
    /\ pc = "spawning"
    /\ output' = [io_error |-> TRUE, success |-> FALSE, stdout |-> EmptyDocument]
    /\ pc' = "exited"
    /\ UNCHANGED <<builderVars, stdout, result, parses, viewVars>>

LaunchSucceeds ==
    /\ pc = "spawning"
    /\ pc' = "running"
    /\ UNCHANGED <<builderVars, stdout, output, result, parses, viewVars>>

RECURSIVE EntryCount(_)
EntryCount(members) ==
    IF members = <<>>
    THEN 0
    ELSE Len(Head(members).value) + EntryCount(Tail(members))

\* The detail members written so far.
Written(doc) == EntryCount(doc.devShells.members) + EntryCount(doc.packages.members)

\* The nix process writes the key of category c and opens its object.
ToolOpensCategory(c) ==
    /\ pc = "running"
    /\ ~stdout[c].present
    /\ stdout' = [stdout EXCEPT ![c].present = TRUE]
    /\ UNCHANGED <<builderVars, pc, output, result, parses, viewVars>>

\* It writes a platform key in category c and opens that platform's object.
ToolOpensPlatform(c, p) ==
    /\ pc = "running"
    /\ stdout[c].present
    /\ Len(stdout.devShells.members) + Len(stdout.packages.members) < Cardinality(Platforms)
    /\ stdout' = [stdout EXCEPT ![c].members = Append(@, [key |-> p, value |-> <<>>])]
    /\ UNCHANGED <<builderVars, pc, output, result, parses, viewVars>>

\* It writes the member i: d into the platform object it opened last in c.
ToolWritesDetail(c, i, d) ==
    /\ pc = "running"
    /\ stdout[c].members # <<>>
    /\ Written(stdout) < MaxEntries
    /\ LET n == Len(stdout[c].members)
       IN  stdout' = [stdout EXCEPT ![c].members[n].value =
                                        Append(@, [key |-> i, value |-> d])]
    /\ UNCHANGED <<builderVars, pc, output, result, parses, viewVars>>

\* The process exits, with status 0 or not, its document closed or cut short.
ToolExits(success, complete) ==
    /\ pc = "running"
    /\ output' = [io_error |-> FALSE, success |-> success,
                  stdout |-> [stdout EXCEPT !.complete = complete]]
    /\ pc' = "exited"
    /\ UNCHANGED <<builderVars, stdout, result, parses, viewVars>>

\* into_structured from the return of output() on: `?`, the status test and
\* from_stdout.  A panic of from_stdout unwinds through into_structured.
IntoStructuredReturn ==
    /\ pc = "exited"
    /\ \E iter \in [Cats -> [Platforms -> IterOrders]] :
        LET r == into_structured(output, iter)
        IN  /\ result' = [tag |-> r.tag, info |-> r.info]
            /\ parses' = parses + r.parses
            /\ pc' = IF r.tag = "Panic" THEN "panicked" ELSE "done"
    /\ UNCHANGED <<builderVars, stdout, output, viewVars>>

\* ------------------------------------------------------------------ views
HasInfo == pc = "done" /\ result.tag = "OkSome"

Systems == Platforms \cup {"riscv-platform"}

\* info.for_system(sys)
ForSystem(sys) ==
    /\ HasInfo
    /\ view' = for_system(result.info[1], sys)
    /\ lastQuery' = [kind |-> "for_system", sys |-> Some(sys)]
    /\ UNCHANGED <<builderVars, runVars, nix, asked>>

\* info.for_current_system(); launched = FALSE is a `nix eval` that cannot be
\* started, on which current_nix_system panics.
ForCurrentSystem(launched) ==
    /\ HasInfo
    /\ Len(asked) < MaxQueries
    /\ LET r == for_current_system(result.info[1], nix, launched)
       IN  /\ nix' = r.nix
           /\ asked' = Append(asked, nix.system)
           /\ IF r.panicked
              THEN /\ pc' = "panicked"
                   /\ lastQuery' = [kind |-> "panicked", sys |-> None]
                   /\ UNCHANGED view
              ELSE /\ pc' = pc
                   /\ lastQuery' = [kind |-> "for_current_system", sys |-> Some(nix.system)]
                   /\ view' = r.ret
    /\ UNCHANGED <<builderVars, stdout, output, result, parses>>

\* The nix installation comes to report another system.
NixSystemChanges(s) ==
    /\ HasInfo
    /\ s # nix.system
    /\ nix' = [nix EXCEPT !.system = s]
    /\ UNCHANGED <<builderVars, runVars, asked, view, lastQuery>>

\* --------------------------------------------------------- specifications
\* The run of into_structured on the default builder: the nix process and what
\* it writes, then the result.
Next ==
    \/ IntoStructuredCall
    \/ LaunchFails
    \/ LaunchSucceeds
    \/ \E c \in Cats : ToolOpensCategory(c)
    \/ \E c \in Cats, p \in Platforms : ToolOpensPlatform(c, p)
    \/ \E c \in Cats, i \in Invoks, d \in JsonDetails : ToolWritesDetail(c, i, d)
    \/ \E success \in BOOLEAN, complete \in BOOLEAN : ToolExits(success, complete)
    \/ IntoStructuredReturn

Spec == Init /\ [][Next]_vars

\* The views of a FlakeInfo: a run of into_structured that returns one (the
\* process exits with status 0 and a document that deserializes), then the
\* view calls.
Deserializable == {d \in JsonDetails : FlakeAnatomyDetail(d).ok}

NextView ==
    \/ IntoStructuredCall
    \/ LaunchSucceeds
    \/ \E c \in Cats : ToolOpensCategory(c)
    \/ \E c \in Cats, p \in Platforms : ToolOpensPlatform(c, p)
    \/ \E c \in Cats, i \in Invoks, d \in Deserializable : ToolWritesDetail(c, i, d)
    \/ ToolExits(TRUE, TRUE)
    \/ IntoStructuredReturn
    \/ \E sys \in Systems : ForSystem(sys)
    \/ \E launched \in BOOLEAN : ForCurrentSystem(launched)
    \/ \E s \in Platforms : NixSystemChanges(s)

SpecView == Init /\ [][NextView]_vars

\* One builder, any sequence of setter calls, then build().
AllOptions == Cardinality(OptionNames)

NextBuild ==
    \/ SetAllSystems(1, AllOptions)
    \/ SetJson(1, AllOptions)
    \/ SetLegacy(1, AllOptions)
    \/ SetImpure(1, AllOptions)
    \/ SetRecreateLockFile(1, AllOptions)
    \/ SetDebug(1, AllOptions)
    \/ SetVerbosityLevel(1, AllOptions)
    \/ SetLogFormat(1, AllOptions)
    \/ SetUrl(1, AllOptions)
    \/ Build(1)

SpecBuild == Init /\ [][NextBuild]_vars

\* Two builders, each with its own sequence of setter calls, then build().
NextPair ==
    \E b \in Builders :
        \/ SetAllSystems(b, MaxSetterCalls)
        \/ SetJson(b, MaxSetterCalls)
        \/ SetLegacy(b, MaxSetterCalls)
        \/ SetImpure(b, MaxSetterCalls)
        \/ SetRecreateLockFile(b, MaxSetterCalls)
        \/ SetDebug(b, MaxSetterCalls)
        \/ SetVerbosityLevel(b, MaxSetterCalls)
        \/ SetLogFormat(b, MaxSetterCalls)
        \/ SetUrl(b, MaxSetterCalls)
        \/ Build(b)

SpecPair == Init /\ [][NextPair]_vars

\* ------------------------------------------------------------ properties
Returned == pc \in {"done", "panicked"}
Parsed == Returned /\ result.tag = "OkSome"
Info == result.info[1]
Document == output.stdout

Category(x, c) == IF c = "devShells" THEN x.dev_shells ELSE x.packages

\* The FlakeShowOutput the captured document deserializes into.
Raw == FlakeShowOutput(Document).val[1]

RECURSIVE TotalLen(_, _)
TotalLen(m, keys) ==
    IF keys = {}
    THEN 0
    ELSE LET k == CHOOSE k \in keys : TRUE
         IN  Len(m[k]) + TotalLen(m, keys \ {k})

RECURSIVE TotalKeys(_, _)
TotalKeys(m, keys) ==
    IF keys = {}
    THEN 0
    ELSE LET k == CHOOSE k \in keys : TRUE
         IN  Cardinality(DOMAIN m[k].names) + TotalKeys(m, keys \ {k})

UniqueKeys(members) ==
    \A a, b \in 1..Len(members) : a # b => members[a].key # members[b].key

\* No name occurs twice in an object of category c of the document.
NoDuplicates(doc, c) ==
    /\ UniqueKeys(doc[c].members)
    /\ \A a \in 1..Len(doc[c].members) : UniqueKeys(doc[c].members[a].value)

\* The positions of seq whose entry is invoked as i.
Invoked(seq, i) == {k \in 1..Len(seq) : seq[k].invocation = i}

Entry(j, i) ==
    [name |-> j.name[1], kind |-> j.type[1], description |-> j.description,
     invocation |-> i]

\* C1: a parse that succeeds yields, in each category, as many entries over all
\* platforms as the parsed input has invocation-name keys over all platform
\* mappings of that category; when no name occurs twice in the document, that
\* is the number of detail members the document holds in the category.
C1_LosslessCount ==
    Parsed =>
        \A c \in Cats :
            /\ TotalLen(Category(Info, c), DOMAIN Category(Info, c))
                   = TotalKeys(Category(Raw, c), DOMAIN Category(Raw, c))
            /\ NoDuplicates(Document, c) =>
                   TotalLen(Category(Info, c), DOMAIN Category(Info, c))
                       = EntryCount(Document[c].members)

C1_Witness ==
    /\ Parsed
    /\ \E c \in Cats :
        /\ DOMAIN Category(Info, c) = Platforms
        /\ \A p \in Platforms : Len(Category(Info, c)[p]) = 1

\* C2: a parse that succeeds promotes keys to fields one to one: every detail of
\* the parsed input at category c, platform p, invocation name i has exactly one
\* entry invoked as i in the index at c, p, with its name, kind and description;
\* every entry of the index at c, p is invoked by a key of the input at c, p and
\* carries that detail; the platforms of the index are those of the input.  When
\* no name occurs twice in the document, the same holds of the document's members.
C2_KeyToField ==
    Parsed =>
        \A c \in Cats :
            LET idx == Category(Info, c)
                raw == Category(Raw, c)
                doc == Document[c].members
            IN  /\ DOMAIN idx = DOMAIN raw
                /\ \A p \in DOMAIN raw :
                    /\ \A i \in DOMAIN raw[p].names :
                        /\ Cardinality(Invoked(idx[p], i)) = 1
                        /\ \A k \in Invoked(idx[p], i) :
                            /\ idx[p][k].name = raw[p].names[i].name
                            /\ idx[p][k].kind = raw[p].names[i].type
                            /\ idx[p][k].description = raw[p].names[i].description
                    /\ \A k \in 1..Len(idx[p]) : idx[p][k].invocation \in DOMAIN raw[p].names
                /\ NoDuplicates(Document, c) =>
                    /\ DOMAIN idx = {doc[a].key : a \in 1..Len(doc)}
                    /\ \A a \in 1..Len(doc) :
                        /\ Len(idx[doc[a].key]) = Len(doc[a].value)
                        /\ \A b \in 1..Len(doc[a].value) :
                            \E k \in 1..Len(idx[doc[a].key]) :
                                idx[doc[a].key][k]
                                    = Entry(doc[a].value[b].value, doc[a].value[b].key)

C2_Witness ==
    /\ Parsed
    /\ "p" \in DOMAIN Info.packages
    /\ Len(Info.packages["p"]) = 2
    /\ \E k \in 1..2 :
        Info.packages["p"][k]
            = [name |-> "n", kind |-> "k", description |-> Some("d"), invocation |-> "i"]

\* C3: into_structured returns the launch error when the process cannot be
\* started; otherwise Ok(None) when the exit status is not 0, without calling
\* the parser; otherwise it calls the parser once on the captured bytes and
\* returns what the parser gives.
C3_Outcomes ==
    /\ ~Returned => parses = 0 /\ result.tag = "Pending"
    /\ Returned =>
        /\ output.io_error => result.tag = "Err" /\ parses = 0
        /\ ~output.io_error /\ ~output.success => result.tag = "OkNone" /\ parses = 0
        /\ ~output.io_error /\ output.success =>
            /\ parses = 1
            /\ result.tag \in {"OkSome", "Panic"}
            /\ \E iter \in [Cats -> [Platforms -> IterOrders]] :
                result.info = from_stdout(Document, iter).info
        /\ result.tag = "OkSome" <=> result.info # None

C3_Witness ==
    /\ Returned
    /\ result.tag = "OkNone"
    /\ ~output.success
    /\ Document.complete
    /\ Written(Document) = MaxEntries
    /\ FlakeShowOutput(Document).ok

IsMalformedDetail(j) == j.name = None \/ j.type = None

\* The document is cut short, or one of its details lacks name or type.
Malformed(doc) ==
    \/ ~doc.complete
    \/ \E c \in Cats :
        \E a \in 1..Len(doc[c].members) :
            \E b \in 1..Len(doc[c].members[a].value) :
                IsMalformedDetail(doc[c].members[a].value[b].value)

\* C4: a parse of a malformed document fails as a whole: from_stdout panics and
\* no FlakeInfo is returned, whatever else the document holds.
C4_MalformedFails ==
    Returned /\ ~output.io_error /\ output.success /\ Malformed(Document) =>
        /\ result.tag = "Panic"
        /\ result.info = None
        /\ pc = "panicked"

C4_Witness ==
    /\ Returned
    /\ result.tag = "Panic"
    /\ Document.complete
    /\ \E c \in Cats :
        /\ Len(Document[c].members) = 2
        /\ Len(Document[c].members[1].value) = 1
        /\ ~IsMalformedDetail(Document[c].members[1].value[1].value)
        /\ Len(Document[c].members[2].value) = 1
        /\ Document[c].members[2].value[1].value.name = None

Viewed == lastQuery.kind \in {"for_system", "for_current_system"}

\* C5: a view of a platform that is not a key of a category has the empty
\* sequence for that category: both are empty when it is a key of neither.
C5_AbsentPlatformEmpty ==
    Viewed =>
        /\ lastQuery.sys[1] \notin DOMAIN Info.dev_shells => view.dev_shells = <<>>
        /\ lastQuery.sys[1] \notin DOMAIN Info.packages => view.packages = <<>>

C5_Witness ==
    /\ lastQuery.kind = "for_system"
    /\ lastQuery.sys[1] \in DOMAIN Info.dev_shells
    /\ lastQuery.sys[1] \notin DOMAIN Info.packages
    /\ Len(view.dev_shells) = 2
    /\ view.packages = <<>>

\* The document with every absent category replaced by an empty object.
WithBothKeys(doc) ==
    [doc EXCEPT !.devShells.present = TRUE, !.packages.present = TRUE]

SomeAbsent(doc) == ~doc.devShells.present \/ ~doc.packages.present

\* C6: a document that lacks devShells or packages, and is not malformed,
\* parses; the mapping of each absent category is empty; and the result is one
\* the same document with the absent keys present and empty parses into.
C6_AbsentCategory ==
    Returned /\ ~output.io_error /\ output.success
        /\ SomeAbsent(Document) /\ ~Malformed(Document) =>
        /\ result.tag = "OkSome"
        /\ \A c \in Cats : ~Document[c].present => Category(Info, c) = EmptyMap
        /\ \E iter \in [Cats -> [Platforms -> IterOrders]] :
            result.info = from_stdout(WithBothKeys(Document), iter).info

C6_Witness ==
    /\ Parsed
    /\ ~Document.devShells.present
    /\ Document.packages.present
    /\ Info.dev_shells = EmptyMap
    /\ DOMAIN Info.packages = Platforms
    /\ \A p \in Platforms : Len(Info.packages[p]) = 1

Flag(enabled, arg) == IF enabled THEN <<arg>> ELSE <<>>

VerbosityArgs(n) ==
    CASE n = 0 -> <<>>
      [] n = 1 -> <<"-v">>
      [] n = 2 -> <<"-vv">>
      [] n = 3 -> <<"-vvv">>
      [] n = 4 -> <<"-vvvv">>

LogFormatArgs(f) ==
    CASE f = None -> <<>>
      [] f = Some("Raw") -> <<"--log-format", "raw">>
      [] f = Some("InternalJson") -> <<"--log-format", "internal-json">>
      [] f = Some("Bar") -> <<"--log-format", "bar">>
      [] f = Some("BarWithLogs") -> <<"--log-format", "bar-with-logs">>

\* C7: the arguments build() gives are "flake", "show", the target if set, the
\* enabled flags among --all-systems, --json, --legacy, --impure,
\* --recreate-lock-file, --debug in that order, -v...v with N v's when the
\* verbosity level N is above 0, and --log-format with its value when set.
C7_Arguments ==
    built[1] # None =>
        built[1][1].args =
            <<"flake", "show">>
            \o cfg[1].url
            \o Flag(cfg[1].all_systems, "--all-systems")
            \o Flag(cfg[1].json, "--json")
            \o Flag(cfg[1].legacy, "--legacy")
            \o Flag(cfg[1].impure, "--impure")
            \o Flag(cfg[1].recreate_lock_file, "--recreate-lock-file")
            \o Flag(cfg[1].debug, "--debug")
            \o VerbosityArgs(cfg[1].verbosity_level)
            \o LogFormatArgs(cfg[1].log_format)

C7_Witness ==
    /\ built[1] # None
    /\ built[1][1].args =
        <<"flake", "show", "./flake", "--all-systems", "--json", "--legacy", "--impure",
          "--recreate-lock-file", "--debug", "-vv", "--log-format", "internal-json">>

\* C8: two builders whose options were last set to the same values build the
\* same Command, however many setter calls each took and in whatever order.
C8_SetterOrder ==
    built[1] # None /\ built[2] # None /\ last[1] = last[2] => built[1] = built[2]

C8_Witness ==
    /\ built[1] # None
    /\ built[2] # None
    /\ last[1] = last[2]
    /\ nset[1] = MaxSetterCalls
    /\ nset[2] = 1
    /\ last[1].verbosity_level = 1

ScenarioDocument ==
    [complete |-> TRUE,
     devShells |-> [present |-> FALSE, members |-> <<>>],
     packages |->
        [present |-> TRUE,
         members |->
            << [key |-> "x86-platform",
                value |-> << [key |-> "hello",
                              value |-> [name |-> Some("hello"),
                                         type |-> Some("derivation"),
                                         description |-> None]] >>] >>]]

ScenarioView ==
    [dev_shells |-> <<>>,
     packages |-> << [name |-> "hello", kind |-> "derivation", description |-> None,
                      invocation |-> "hello"] >>]

\* C9: a view of platform p holds, per category, the entries the index has
\* under p, in the index's order, when p is a key, and none otherwise; the
\* document {"packages":{"x86-platform":{"hello":{"name":"hello","type":
\* "derivation"}}}} viewed at x86-platform gives no dev shells and the one
\* package hello.
C9_ViewIsIndexEntries ==
    Viewed =>
        /\ \A c \in Cats :
            LET idx == Category(Info, c)
                seq == Category(view, c)
                p == lastQuery.sys[1]
            IN  IF p \in DOMAIN idx
                THEN /\ Len(seq) = Len(idx[p])
                     /\ \A k \in 1..Len(seq) : seq[k] = idx[p][k]
                ELSE seq = <<>>
        /\ Document = ScenarioDocument /\ lastQuery.sys = Some("x86-platform") =>
            view = ScenarioView

C9_Witness ==
    /\ lastQuery.kind = "for_system"
    /\ lastQuery.sys = Some("x86-platform")
    /\ Document = ScenarioDocument
    /\ view = ScenarioView

\* C10: every for_current_system call asks nix for the system once, at the call
\* (the evaluations asked of nix are the calls, each with the system reported
\* at the time), and the view returned is the view of the system reported then.
C10_AsksEachTime ==
    /\ nix.log = asked
    /\ lastQuery.kind = "for_current_system" =>
        /\ lastQuery.sys = Some(asked[Len(asked)])
        /\ view = for_system(Info, asked[Len(asked)])

C10_Witness ==
    /\ lastQuery.kind = "for_current_system"
    /\ Len(asked) = 2
    /\ asked[1] # asked[2]
    /\ view.packages # <<>>
    /\ view # for_system(Info, asked[1])

====
